---- MODULE Spec2Model ----
(***************************************************************************)
(* Jira -> GitHub bug processor (.github/scripts/process_jira_bug.py).     *)
(*                                                                         *)
(* One JiraGitHubProcessor run is modelled step by step: fetch, the        *)
(* per-attachment download loop, release creation, the per-attachment      *)
(* upload loop, issue creation and the back-link comment.  Every remote    *)
(* call and every local I/O step has a nondeterministic outcome; an        *)
(* exception that leaves a method is caught by run(), which returns 1.     *)
(* Runs follow each other (one process invocation each) and share only     *)
(* the wall clock and the releases that exist on GitHub.                   *)
(*                                                                         *)
(* Strings are sequences of tokens, so that lower-casing, replacing        *)
(* spaces, prefixing and taking a file extension are computed.             *)
(*                                                                         *)
(* The helper functions (rich-text extraction, field defaults, labels,     *)
(* the attachments section of issue_generator.py and process_jira_bug.py,  *)
(* severity_label of issue-creator/github-client.py) are also evaluated    *)
(* on their own under SpecFn: one call on one argument drawn from a        *)
(* bounded set of inputs.                                                  *)
(*                                                                         *)
(* The cleanup script (.github/scripts/cleanup_attachments.py) is modelled *)
(* under SpecCleanup: the listing request, then one DELETE per matching    *)
(* release.                                                                *)
(***************************************************************************)
EXTENDS Integers, Sequences, FiniteSets, TLC

\* Bounds of the model.
MaxRefs == 2
MaxRuns == 2
MaxClock == 1
MaxNodes == 3
MaxOddFields == 1
MaxNames == 2
MaxReleases == 3

VARIABLES
    run_no,               \* which process invocation this is
    now,                  \* the latest reading of int(time.time())
    tag_log,              \* release creation requests of all runs so far
    bug_key,              \* self.bug_key
    bug_data,             \* self.bug_data: <<>> is None, <<r>> the fetched record
    attachments,          \* self.attachments
    github_issue_number,  \* self.github_issue_number: 0 is None
    github_issue_url,     \* self.github_issue_url: <<>> is None
    pc,                   \* position of run()
    exit_code,            \* value returned by run(): -1 while it runs
    i,                    \* index of the download loop of process_attachments
    filename,             \* the local variable `filename` of process_attachments
    upload_url,           \* the local `upload_url` of upload_to_github_release
    j,                    \* index of the upload loop of upload_to_github_release
    net,                  \* per attachment ref: what the download/save will do
    disk,                 \* attachments/<filename> -> ref whose bytes it holds
    requests,             \* remote requests made by this run, in order
    upload_log,           \* _upload_asset calls of this run and their outcomes
    outcomes,             \* outcome of the fetch, mkdir, release, issue and comment steps
    issue_data,           \* payload POSTed to /issues: <<>> before the POST
    fn_name,              \* the helper function under evaluation ("none": a run)
    fn_input,             \* its argument
    fn_output,            \* what it returned or raised: <<>> before the call
    cleanup_pc,           \* position of delete_releases_for_bug ("idle": not running)
    cleanup_key,          \* its argument bug_key
    repo_releases,        \* the releases the repository lists, in listing order
    matching_releases,    \* the local matching_releases
    r,                    \* index of the delete loop
    delete_log,           \* DELETE requests made, in order, with their outcomes
    list_outcome,         \* outcome of the listing request
    deleted_count,        \* the local deleted_count
    cleanup_exit          \* exit status of the cleanup script: -1 while it runs

run_vars == <<run_no, now, tag_log, bug_key, bug_data, attachments,
              github_issue_number, github_issue_url, pc, exit_code, i, filename, upload_url,
              j, net, disk, requests, upload_log, outcomes, issue_data>>

fn_vars == <<fn_name, fn_input, fn_output>>

cleanup_vars == <<cleanup_pc, cleanup_key, repo_releases, matching_releases, r, delete_log,
                  list_outcome, deleted_count, cleanup_exit>>

vars == <<run_vars, fn_vars, cleanup_vars>>

\* the cleanup script is not running
CleanupIdle ==
    /\ cleanup_pc = "idle"
    /\ cleanup_key = "BUG-1"
    /\ repo_releases = <<>>
    /\ matching_releases = <<>>
    /\ r = 0
    /\ delete_log = <<>>
    /\ list_outcome = "none"
    /\ deleted_count = 0
    /\ cleanup_exit = -1

----------------------------------------------------------------------------
\* Values

BugKeys == {"BUG-1", "BUG-2"}

Missing == <<"<missing>">>      \* the key is not in the dict
Unbound == <<"<unbound>">>      \* a local variable that was never assigned
Absent  == <<"<absent>">>       \* the field is not in `fields`
Null    == <<"<null>">>         \* the field is present with value null
NoneUrl == <<>>                 \* github_url: None

Filenames == { <<"shot", ".", "png">>, <<"trace", ".", "log">> }
Sizes == {1536}

AttachmentRefs == [filename : Filenames \cup {Missing}, size : Sizes]

StepOutcomes == {"ok", "dl_error", "write_error"}

RECURSIVE SeqsUpTo(_, _)
SeqsUpTo(S, n) ==
    IF n = 0 THEN { <<>> }
    ELSE LET shorter == SeqsUpTo(S, n - 1)
         IN  shorter \cup { Append(s, x) : s \in { t \in shorter : Len(t) = n - 1 }, x \in S }

\* The `fields` of the records the tracker may return (besides attachments).
FieldVariants ==
    { [summary |-> <<"Crash">>, issuetype |-> Absent, priority |-> Absent,
       components |-> <<>>, labels |-> <<>>],
      [summary |-> <<"Crash">>, issuetype |-> <<"Story">>, priority |-> <<"High">>,
       components |-> << <<"Core">>, <<"Data", " ", "Layer">> >>,
       labels |-> << <<"core">> >>],
      [summary |-> <<"Crash">>, issuetype |-> <<"Bug">>, priority |-> <<"High">>,
       components |-> <<>>, labels |-> << <<"automated">>, <<"high">> >>],
      [summary |-> <<"Crash">>, issuetype |-> <<"Bug">>, priority |-> Null,
       components |-> <<>>, labels |-> <<>>] }

----------------------------------------------------------------------------
\* String helpers

LowerTok(t) ==
    CASE t = "BUG-1" -> "bug-1"
      [] t = "BUG-2" -> "bug-2"
      [] t = "Bug"   -> "bug"
      [] t = "BUG"   -> "bug"
      [] t = "New"   -> "new"
      [] t = "Feature" -> "feature"
      [] t = "Story" -> "story"
      [] t = "High"  -> "high"
      [] t = "Medium" -> "medium"
      [] t = "Core"  -> "core"
      [] t = "Data"  -> "data"
      [] t = "Layer" -> "layer"
      [] OTHER -> t

Lower(s) == [k \in DOMAIN s |-> LowerTok(s[k])]

ReplaceSpace(s) == [k \in DOMAIN s |-> IF s[k] = " " THEN "-" ELSE s[k]]

\* fields.get(name, {}).get('name', default)
GetName(field, default) == IF field = Absent THEN default ELSE field

\* release_tag = f"jira-{self.bug_key.lower()}-{int(time.time())}"
ReleaseTag(key, t) == <<"jira-", LowerTok(key), "-", ToString(t)>>

\* _get_file_icon
GetFileIcon(fname) ==
    LET ext == IF \E k \in DOMAIN fname : fname[k] = "."
               THEN LowerTok(fname[Len(fname)]) ELSE ""
    IN  CASE ext \in {"png", "jpg", "jpeg", "gif", "svg"} -> "icon:image"
          [] ext \in {"pdf", "doc", "docx", "txt"} -> "icon:doc"
          [] ext = "log" -> "icon:log"
          [] OTHER -> "icon:clip"

\* size_kb = att['size'] / 1024, printed with two decimals: in hundredths
SizeKb(size) == ToString((size * 100) \div 1024)

----------------------------------------------------------------------------
Refs == IF bug_data = <<>> THEN <<>> ELSE bug_data[1].fields.attachment

NoOutcomes ==
    [fetch |-> "none", mkdir |-> "none", release |-> "none", issue |-> "none",
     comment |-> "none"]

Init ==
    /\ run_no = 1
    /\ now = 0
    /\ tag_log = {}
    /\ bug_key \in BugKeys
    /\ bug_data = <<>>
    /\ attachments = <<>>
    /\ github_issue_number = 0
    /\ github_issue_url = <<>>
    /\ pc = "fetch"
    /\ exit_code = -1
    /\ i = 0
    /\ filename = Unbound
    /\ upload_url = <<>>
    /\ j = 0
    /\ net = <<>>
    /\ disk = [f \in Filenames |-> 0]
    /\ requests = <<>>
    /\ upload_log = <<>>
    /\ outcomes = NoOutcomes
    /\ issue_data = <<>>
    /\ fn_name = "none"
    /\ fn_input = <<>>
    /\ fn_output = <<>>
    /\ CleanupIdle

----------------------------------------------------------------------------
\* run(): `except Exception` around the five steps returns 1
Raise ==
    /\ pc' = "done"
    /\ exit_code' = 1

Request(op, ref) == [op |-> op, ref |-> ref]

\* fetch_bug_from_jira: HTTPError is re-raised, any other exception propagates
FetchOutcomes == {"ok", "http_error", "url_error", "bad_json"}

FetchRaisesHttpOnly(o) == o = "http_error"

FetchRaises(o) == o # "ok"

FetchBugFromJira ==
    /\ pc = "fetch"
    /\ requests' = Append(requests, Request("fetch", 0))
    /\ \E o \in FetchOutcomes :
        /\ outcomes' = [outcomes EXCEPT !.fetch = o]
        /\ IF FetchRaises(o)
           THEN /\ Raise
                /\ UNCHANGED <<bug_data, net>>
           ELSE /\ \E f \in FieldVariants, refs \in SeqsUpTo(AttachmentRefs, MaxRefs) :
                       bug_data' = << [key |-> bug_key,
                                       fields |-> [summary |-> f.summary,
                                                   issuetype |-> f.issuetype,
                                                   priority |-> f.priority,
                                                   components |-> f.components,
                                                   labels |-> f.labels,
                                                   attachment |-> refs]] >>
                /\ net' \in [1 .. Len(bug_data'[1].fields.attachment) -> StepOutcomes]
                /\ pc' = "process_attachments"
                /\ UNCHANGED exit_code
    /\ UNCHANGED fn_vars
    /\ UNCHANGED cleanup_vars
    /\ UNCHANGED <<run_no, now, tag_log, bug_key, attachments, github_issue_number,
                   github_issue_url, i, filename, upload_url, j, disk, upload_log,
                   issue_data>>

\* run(): `if self.attachments:` decides whether upload_to_github_release is called
ShouldUploadAlways(atts) == TRUE

ShouldUpload(atts) == atts # <<>>

AfterProcessAttachments(atts) == IF ShouldUpload(atts) THEN "create_release" ELSE "create_issue"

\* process_attachments, before the loop: no refs -> return; else mkdir
MkdirOutcomes == {"ok", "os_error"}

ProcessAttachments ==
    /\ pc = "process_attachments"
    /\ IF Refs = <<>>
       THEN /\ pc' = AfterProcessAttachments(attachments)
            /\ UNCHANGED <<exit_code, i, outcomes>>
       ELSE \E o \in MkdirOutcomes :
              /\ outcomes' = [outcomes EXCEPT !.mkdir = o]
              /\ IF o = "ok"
                 THEN /\ pc' = "download"
                      /\ i' = 1
                      /\ UNCHANGED exit_code
                 ELSE /\ Raise
                      /\ UNCHANGED i
    /\ UNCHANGED fn_vars
    /\ UNCHANGED cleanup_vars
    /\ UNCHANGED <<run_no, now, tag_log, bug_key, bug_data, attachments,
                   github_issue_number, github_issue_url, filename, upload_url, j,
                   net, disk, requests, upload_log, issue_data>>

\* the handler `except Exception as e: print(f"... {filename} ..."); continue`
\* reads the local `filename`: unbound, it raises UnboundLocalError
HandlerRaises(fname) == fname = Unbound

\* one iteration of the loop of process_attachments
DownloadAttachment ==
    /\ pc = "download"
    /\ LET ref == Refs[i]
           next == IF i = Len(Refs) THEN "returned" ELSE "loop"
       IN
       IF ref.filename = Missing
       THEN \* attachment['filename'] raises KeyError before `filename` is assigned
            /\ IF HandlerRaises(filename)
               THEN /\ Raise
                    /\ UNCHANGED i
               ELSE /\ i' = i + 1
                    /\ pc' = IF next = "returned"
                             THEN AfterProcessAttachments(attachments) ELSE "download"
                    /\ UNCHANGED exit_code
            /\ UNCHANGED <<filename, requests, disk, attachments>>
       ELSE /\ filename' = ref.filename
            /\ requests' = Append(requests, Request("download", i))
            /\ IF net[i] = "ok"
               THEN /\ disk' = [disk EXCEPT ![ref.filename] = i]
                    /\ attachments' = Append(attachments,
                           [filename |-> ref.filename, size |-> ref.size,
                            github_url |-> NoneUrl, ref |-> i])
               ELSE UNCHANGED <<disk, attachments>>
            /\ i' = i + 1
            /\ pc' = IF next = "returned"
                     THEN AfterProcessAttachments(attachments') ELSE "download"
            /\ UNCHANGED exit_code
    /\ UNCHANGED fn_vars
    /\ UNCHANGED cleanup_vars
    /\ UNCHANGED <<run_no, now, tag_log, bug_key, bug_data, github_issue_number,
                   github_issue_url, upload_url, j, net, upload_log, outcomes,
                   issue_data>>

----------------------------------------------------------------------------
\* time.time(): the wall clock never reads less than it read before
ClockReadings == now .. MaxClock

\* upload_to_github_release up to the upload loop: HTTPError and any other
\* exception of the creation request are caught, printed and not retried
ReleaseOutcomes == {"ok", "http_error", "error"}

AfterReleaseRetry(o) == IF o = "ok" THEN "upload" ELSE "create_release"

AfterRelease(o) == IF o = "ok" THEN "upload" ELSE "create_issue"

CreateRelease ==
    /\ pc = "create_release"
    /\ \E t \in ClockReadings, o \in ReleaseOutcomes :
        LET tag == ReleaseTag(bug_key, t)
        IN  /\ now' = t
            /\ requests' = Append(requests, Request("release", 0))
            /\ outcomes' = [outcomes EXCEPT !.release = o]
            /\ tag_log' = tag_log \cup { [run |-> run_no, key |-> bug_key, tag |-> tag] }
            /\ pc' = AfterRelease(o)
            /\ upload_url' = IF o = "ok" THEN <<"uploads/">> \o tag ELSE upload_url
            /\ j' = IF AfterRelease(o) = "upload" THEN 1 ELSE j
    /\ UNCHANGED fn_vars
    /\ UNCHANGED cleanup_vars
    /\ UNCHANGED <<run_no, bug_key, bug_data, attachments, github_issue_number,
                   github_issue_url, exit_code, i, filename, net, disk, upload_log,
                   issue_data>>

\* _upload_asset: a failed read returns, HTTPError and any other exception of
\* the upload request are caught; github_url is set from the response only
UploadOutcomes == {"ok", "read_error", "http_error", "error"}

\* asset['browser_download_url']
DownloadUrl(url, fname) == <<"download/">> \o SubSeq(url, 2, Len(url)) \o <<"/">> \o fname

UrlAfterUpload(att, o) == IF o = "ok" THEN DownloadUrl(upload_url, att.filename) ELSE att.github_url

\* `for attachment in self.attachments: self._upload_asset(...)`: the next index
NextUploadBreak(jj, o) == IF o = "ok" THEN jj + 1 ELSE Len(attachments) + 1

NextUpload(jj, o) == jj + 1

UploadAsset ==
    /\ pc = "upload"
    /\ j \in DOMAIN attachments
    /\ \E o \in UploadOutcomes :
        /\ upload_log' = Append(upload_log,
               [att |-> j, outcome |-> o, bytes |-> disk[attachments[j].filename]])
        /\ requests' = IF o = "read_error" THEN requests
                       ELSE Append(requests, Request("upload", j))
        /\ attachments' = [attachments EXCEPT ![j].github_url = UrlAfterUpload(attachments[j], o)]
        /\ j' = NextUpload(j, o)
        /\ pc' = IF NextUpload(j, o) > Len(attachments) THEN "create_issue" ELSE "upload"
    /\ UNCHANGED fn_vars
    /\ UNCHANGED cleanup_vars
    /\ UNCHANGED <<run_no, now, tag_log, bug_key, bug_data, github_issue_number,
                   github_issue_url, exit_code, i, filename, upload_url, net, disk,
                   outcomes, issue_data>>

----------------------------------------------------------------------------
\* create_github_issue, lines 273-277: fields.get(k, {}) is None for a null
\* field, and None.get raises AttributeError
FieldsRaise(fields) == fields.issuetype = Null \/ fields.priority = Null

UploadFailedMarker == "*Upload failed*"

AttachmentLineAlwaysLinked(att) ==
    <<"- ", GetFileIcon(att.filename), " **[">> \o att.filename \o <<"](">>
        \o att.github_url \o <<")** - ", SizeKb(att.size), " KB">>

\* one line of the attachment section, lines 316-321
AttachmentLine(att) ==
    IF att.github_url # <<>>
    THEN <<"- ", GetFileIcon(att.filename), " **[">> \o att.filename \o <<"](">>
             \o att.github_url \o <<")** - ", SizeKb(att.size), " KB">>
    ELSE <<"- ", GetFileIcon(att.filename), " **">> \o att.filename
             \o <<"** - ", SizeKb(att.size), " KB ", UploadFailedMarker>>

\* attachment_section, lines 312-321: "" without attachments
AttachmentSection(atts) ==
    IF atts = <<>> THEN <<>>
    ELSE << <<"## Attachments">> >> \o [k \in 1 .. Len(atts) |-> AttachmentLine(atts[k])]

IssueLabelsTrackerLabelsFirst(fields) ==
    LET bug_type   == GetName(fields.issuetype, <<"Bug">>)
        priority   == GetName(fields.priority, <<"Medium">>)
        components == fields.components
    IN  << <<"jira-bug">>, <<"automated">> >>
        \o << Lower(priority) >>
        \o fields.labels
        \o [k \in 1 .. Len(components) |->
               <<"component:">> \o ReplaceSpace(Lower(components[k]))]
        \o (IF Lower(bug_type) # <<"bug">>
            THEN << <<"type:">> \o ReplaceSpace(Lower(bug_type)) >>
            ELSE <<>>)

\* issue_labels, lines 388-403
IssueLabels(fields) ==
    LET bug_type   == GetName(fields.issuetype, <<"Bug">>)
        priority   == GetName(fields.priority, <<"Medium">>)
        components == fields.components
    IN  << <<"jira-bug">>, <<"automated">> >>
        \o << Lower(priority) >>
        \o [k \in 1 .. Len(components) |->
               <<"component:">> \o ReplaceSpace(Lower(components[k]))]
        \o fields.labels
        \o (IF Lower(bug_type) # <<"bug">>
            THEN << <<"type:">> \o ReplaceSpace(Lower(bug_type)) >>
            ELSE <<>>)

\* create_github_issue: HTTPError is re-raised, any other exception propagates
IssueOutcomes == {"ok", "http_error", "url_error", "bad_response"}

IssueRaisesHttpOnly(o) == o = "http_error"

IssueRaises(o) == o # "ok"

CreateGithubIssue ==
    /\ pc = "create_issue"
    /\ LET fields == bug_data[1].fields
       IN  IF FieldsRaise(fields)
           THEN /\ outcomes' = [outcomes EXCEPT !.issue = "field_error"]
                /\ Raise
                /\ UNCHANGED <<issue_data, requests, github_issue_number, github_issue_url>>
           ELSE /\ issue_data' = << [title |-> <<"[", bug_key, "] ">> \o fields.summary,
                                     attachment_section |-> AttachmentSection(attachments),
                                     labels |-> IssueLabels(fields)] >>
                /\ requests' = Append(requests, Request("issue", 0))
                /\ \E o \in IssueOutcomes :
                     /\ outcomes' = [outcomes EXCEPT !.issue = o]
                     /\ IF IssueRaises(o)
                        THEN /\ Raise
                             /\ UNCHANGED <<github_issue_number, github_issue_url>>
                        ELSE /\ github_issue_number' = run_no
                             /\ github_issue_url' = <<"issues/", ToString(run_no)>>
                             /\ pc' = "update_jira"
                             /\ UNCHANGED exit_code
    /\ UNCHANGED fn_vars
    /\ UNCHANGED cleanup_vars
    /\ UNCHANGED <<run_no, now, tag_log, bug_key, bug_data, attachments, i, filename,
                   upload_url, j, net, disk, upload_log>>

\* update_jira: only urllib.error.HTTPError is caught
CommentOutcomes == {"ok", "http_error", "url_error", "timeout"}

UpdateJiraRaises(o) == o \notin {"ok", "http_error"}

UpdateJira ==
    /\ pc = "update_jira"
    /\ requests' = Append(requests, Request("comment", github_issue_number))
    /\ \E o \in CommentOutcomes :
        /\ outcomes' = [outcomes EXCEPT !.comment = o]
        /\ IF UpdateJiraRaises(o)
           THEN Raise
           ELSE /\ pc' = "done"
                /\ exit_code' = 0
    /\ UNCHANGED fn_vars
    /\ UNCHANGED cleanup_vars
    /\ UNCHANGED <<run_no, now, tag_log, bug_key, bug_data, attachments,
                   github_issue_number, github_issue_url, i, filename, upload_url, j,
                   net, disk, upload_log, issue_data>>

----------------------------------------------------------------------------
\* main(): the script is started again, with a new processor and a fresh
\* working directory
NewRun ==
    /\ pc = "done"
    /\ run_no < MaxRuns
    /\ run_no' = run_no + 1
    /\ bug_key' \in BugKeys
    /\ bug_data' = <<>>
    /\ attachments' = <<>>
    /\ github_issue_number' = 0
    /\ github_issue_url' = <<>>
    /\ pc' = "fetch"
    /\ exit_code' = -1
    /\ i' = 0
    /\ filename' = Unbound
    /\ upload_url' = <<>>
    /\ j' = 0
    /\ net' = <<>>
    /\ disk' = [f \in Filenames |-> 0]
    /\ requests' = <<>>
    /\ upload_log' = <<>>
    /\ outcomes' = NoOutcomes
    /\ issue_data' = <<>>
    /\ UNCHANGED fn_vars
    /\ UNCHANGED cleanup_vars
    /\ UNCHANGED <<now, tag_log>>

\* One process invocation.
Next ==
    \/ FetchBugFromJira
    \/ ProcessAttachments
    \/ DownloadAttachment
    \/ CreateRelease
    \/ UploadAsset
    \/ CreateGithubIssue
    \/ UpdateJira

Spec == Init /\ [][Next]_vars

\* Successive process invocations: the workflow is triggered again.
NextRuns ==
    \/ Next
    \/ NewRun

SpecRuns == Init /\ [][NextRuns]_vars

----------------------------------------------------------------------------
\* Rich-text (ADF) values as the tracker's JSON may hold them.  A value is
\* null, a number, a string, a list or a dict; of a dict only the keys the
\* extractor reads are kept: `type`, `text` and `content`.

JNull == [kind |-> "null", type |-> "-", text |-> "-", ckind |-> "-", items |-> <<>>]
JNum == [kind |-> "num", type |-> "-", text |-> "5", ckind |-> "-", items |-> <<>>]
JStr(s) == [kind |-> "str", type |-> "-", text |-> s, ckind |-> "-", items |-> <<>>]
JList(items) == [kind |-> "list", type |-> "-", text |-> "-", ckind |-> "-", items |-> items]
JDict(type, text, ckind, items) ==
    [kind |-> "dict", type |-> type, text |-> text, ckind |-> ckind, items |-> items]

EmptyDict == JDict("<missing>", "<missing>", "<missing>", <<>>)

\* `type` and `text` of the dicts that are enumerated with any children
Heads ==
    { <<"doc", "<missing>">>, <<"text", "a">>, <<"text", "b">> }

\* dicts whose `text` or `content` has an unexpected type
MalformedLeaves ==
    { JDict("text", "<null>", "<missing>", <<>>), JDict("text", "<num>", "<missing>", <<>>),
      JDict("doc", "<missing>", "<null>", <<>>), JDict("doc", "<missing>", "<num>", <<>>) }

Leaves ==
    { JNull, EmptyDict, JDict("text", "<missing>", "<missing>", <<>>) }
    \cup { JDict(h[1], h[2], "<missing>", <<>>) : h \in Heads }
    \cup MalformedLeaves

RECURSIVE TreesOfSize(_), ForestsOfSize(_)
\* the values made of exactly n lists, dicts and nulls
TreesOfSize(n) ==
    IF n = 1
    THEN Leaves \cup { JList(<<>>) } \cup { JDict(h[1], h[2], "list", <<>>) : h \in Heads }
    ELSE LET kids == ForestsOfSize(n - 1)
         IN  { JList(f) : f \in kids }
             \cup { JDict(h[1], h[2], "list", f) : h \in Heads, f \in kids }

ForestsOfSize(m) ==
    IF m = 0 THEN { <<>> }
    ELSE UNION { { <<t>> \o f : t \in TreesOfSize(k), f \in ForestsOfSize(m - k) } : k \in 1 .. m }

\* the values of a field: a number, a string, or a tree of at most MaxNodes
\* lists, dicts and nulls
JsonValues ==
    { JNum, JStr("a"), JStr("") } \cup UNION { TreesOfSize(n) : n \in 1 .. MaxNodes }

----------------------------------------------------------------------------
\* Text extraction

Fallback == <<"No description provided">>

Returned(s) == [raised |-> FALSE, value |-> s]
Raised == [raised |-> TRUE, value |-> <<>>]

\* bool(value)
Truthy(v) ==
    CASE v.kind = "null" -> FALSE
      [] v.kind = "str" -> v.text # ""
      [] v.kind = "list" -> v.items # <<>>
      [] v.kind = "dict" -> v # EmptyDict
      [] OTHER -> TRUE

\* str(value)
StrOf(v) ==
    CASE v.kind = "str" -> IF v.text = "" THEN <<>> ELSE <<v.text>>
      [] v.kind = "null" -> <<"None">>
      [] v.kind = "num" -> <<v.text>>
      [] OTHER -> <<"<repr>">>

RECURSIVE extract_content(_, _), extract_children(_, _)
\* extract_content(node), with text_parts and the pending TypeError in `acc`
extract_content(node, acc) ==
    IF acc.raised THEN acc
    ELSE IF node.kind = "dict"
    THEN LET own == IF node.type = "text"
                    THEN [acc EXCEPT !.parts =
                             Append(@, IF node.text = "<missing>" THEN "" ELSE node.text)]
                    ELSE acc
         IN  CASE node.ckind = "<missing>" -> own
               [] node.ckind = "list" -> extract_children(node.items, own)
               [] OTHER -> [own EXCEPT !.raised = TRUE]
    ELSE IF node.kind = "list" THEN extract_children(node.items, acc)
    ELSE acc

extract_children(items, acc) ==
    IF items = <<>> THEN acc
    ELSE extract_children(Tail(items), extract_content(Head(items), acc))

RECURSIVE Join(_)
\* '\n'.join(text_parts), for parts that are strings
Join(parts) ==
    IF parts = <<>> THEN <<>>
    ELSE LET first == IF Head(parts) = "" THEN <<>> ELSE <<Head(parts)>>
         IN  IF Len(parts) = 1 THEN first ELSE first \o <<"\n">> \o Join(Tail(parts))

\* '\n'.join(text_parts) if text_parts else 'No description provided'
JoinOrEmpty(acc) ==
    IF acc.raised \/ \E k \in DOMAIN acc.parts : acc.parts[k] \in {"<null>", "<num>"}
    THEN Raised
    ELSE Returned(Join(acc.parts))

JoinOrFallback(acc) ==
    IF acc.raised THEN Raised
    ELSE IF acc.parts = <<>> THEN Returned(Fallback)
    ELSE IF \E k \in DOMAIN acc.parts : acc.parts[k] \in {"<null>", "<num>"} THEN Raised
    ELSE Returned(Join(acc.parts))

NoParts == [parts |-> <<>>, raised |-> FALSE]

\* IssueBodyGenerator._extract_description
ExtractDescription(desc_data) ==
    IF ~Truthy(desc_data) THEN Returned(Fallback)
    ELSE IF desc_data.kind = "str" THEN Returned(StrOf(desc_data))
    ELSE IF desc_data.kind = "dict" THEN JoinOrFallback(extract_content(desc_data, NoParts))
    ELSE Returned(StrOf(desc_data))

\* JiraGitHubProcessor._extract_text_from_adf
ExtractTextFromAdf(adf_doc) ==
    IF adf_doc.kind # "dict" THEN Returned(StrOf(adf_doc))
    ELSE JoinOrFallback(extract_content(adf_doc, NoParts))

\* create_github_issue: the description of a record whose field is present
DescriptionOf(description) ==
    IF description.kind = "dict" THEN ExtractTextFromAdf(description)
    ELSE IF description.kind = "null" THEN Returned(Fallback)
    ELSE Returned(StrOf(description))

----------------------------------------------------------------------------
\* Field extraction of the issue body

JAbsent == [kind |-> "absent", type |-> "-", text |-> "-", ckind |-> "-", items |-> <<>>]
AbsentList == <<Absent>>        \* a list-valued field that is not in `fields`
NullList == <<Null>>            \* a list-valued field that is present with null

NotSpecified == <<"Not specified">>

\* environment of IssueBodyGenerator.generate
GeneratorEnvironment(field) ==
    LET environment == ExtractDescription(IF field = JAbsent THEN JStr("") ELSE field)
    IN  IF ~environment.raised /\ environment.value = <<>>
        THEN Returned(NotSpecified) ELSE environment

\* environment of create_github_issue
ProcessorEnvironment(field) ==
    LET environment == IF field = JAbsent THEN JStr("") ELSE field
    IN  IF environment.kind = "dict" THEN ExtractTextFromAdf(environment)
        ELSE IF ~Truthy(environment) THEN Returned(NotSpecified)
        ELSE Returned(StrOf(environment))

RECURSIVE JoinComma(_)
\* ', '.join(names)
JoinComma(names) ==
    IF names = <<>> THEN <<>>
    ELSE IF Len(names) = 1 THEN Head(names)
    ELSE Head(names) \o <<", ">> \o JoinComma(Tail(names))

\* [x['name'] for x in fields.get(key, [])] joined, or the default
NamesText(list, default) ==
    IF list \in {AbsentList, <<>>} THEN default ELSE JoinComma(list)

\* labels joined in backticks, or 'None'
LabelsText(labels) ==
    IF labels \in {AbsentList, NullList, <<>>} THEN <<"None">>
    ELSE JoinComma([k \in DOMAIN labels |-> <<"<backtick>">> \o labels[k] \o <<"<backtick>">>])

\* str(value) of a string field that may be None
Shown(field) == IF field = Null THEN <<"None">> ELSE field

\* the placeholder values of IssueBodyGenerator.generate
GenerateValues(fields) ==
    [bug_type |-> GetName(fields.issuetype, <<"Bug">>),
     summary |-> Shown(GetName(fields.summary, <<"No title">>)),
     priority |-> GetName(fields.priority, <<"Medium">>),
     status |-> GetName(fields.status, <<"Unknown">>),
     reporter |-> GetName(fields.reporter, <<"Unknown">>),
     assignee |-> IF fields.assignee \in {Absent, Null} THEN <<"Unassigned">> ELSE fields.assignee,
     components |-> NamesText(fields.components, <<"None">>),
     labels |-> LabelsText(fields.labels),
     versions |-> NamesText(fields.versions, NotSpecified),
     fix_versions |-> NamesText(fields.fixVersions, NotSpecified),
     description |-> ExtractDescription(IF fields.description = JAbsent THEN JStr("")
                                        ELSE fields.description).value,
     environment |-> GeneratorEnvironment(fields.environment).value]

GenerateRaises(fields) ==
    \/ Null \in {fields.issuetype, fields.priority, fields.status, fields.reporter}
    \/ NullList \in {fields.components, fields.versions, fields.fixVersions}
    \/ ExtractDescription(IF fields.description = JAbsent THEN JStr("")
                          ELSE fields.description).raised
    \/ GeneratorEnvironment(fields.environment).raised

Generate(fields) ==
    IF GenerateRaises(fields) THEN [raised |-> TRUE, values |-> <<>>]
    ELSE [raised |-> FALSE, values |-> <<GenerateValues(fields)>>]

\* the values create_github_issue puts into its inline body
BodyValues(fields) ==
    [bug_type |-> GetName(fields.issuetype, <<"Bug">>),
     summary |-> Shown(fields.summary),
     priority |-> GetName(fields.priority, <<"Medium">>),
     status |-> GetName(fields.status, <<"Unknown">>),
     reporter |-> GetName(fields.reporter, <<"Unknown">>),
     assignee |-> GetName(fields.assignee, <<"Unassigned">>),
     components |-> NamesText(fields.components, <<"None">>),
     labels |-> LabelsText(fields.labels),
     versions |-> NamesText(fields.versions, NotSpecified),
     fix_versions |-> NamesText(fields.fixVersions, NotSpecified),
     description |-> IF fields.description = JAbsent THEN <<>>
                     ELSE DescriptionOf(fields.description).value,
     environment |-> ProcessorEnvironment(fields.environment).value]

BodyRaises(fields) ==
    \/ Null \in {fields.issuetype, fields.priority, fields.status, fields.reporter,
                 fields.assignee}
    \/ NullList \in {fields.components, fields.versions, fields.fixVersions}
    \/ fields.summary = Absent
    \/ fields.description # JAbsent /\ DescriptionOf(fields.description).raised
    \/ ProcessorEnvironment(fields.environment).raised

Body(fields) ==
    IF BodyRaises(fields) THEN [raised |-> TRUE, values |-> <<>>]
    ELSE [raised |-> FALSE, values |-> <<BodyValues(fields)>>]

\* Records of the tracker: complete ones, and ones in which some fields are
\* missing or null.
FieldNames ==
    {"issuetype", "summary", "priority", "status", "reporter", "assignee", "components",
     "labels", "versions", "fixVersions", "environment", "description"}

FieldValue(name, mode) ==
    CASE name \in {"components", "labels", "versions", "fixVersions"} ->
            (CASE mode = "absent" -> AbsentList
               [] mode = "null" -> NullList
               [] OTHER -> << <<"Core">>, <<"Data", " ", "Layer">> >>)
      [] name \in {"environment", "description"} ->
            (CASE mode = "absent" -> JAbsent
               [] mode = "null" -> JNull
               [] OTHER -> JStr("a"))
      [] OTHER ->
            (CASE mode = "absent" -> Absent
               [] mode = "null" -> Null
               [] OTHER -> <<"Story">>)

\* how each field of a record is present: "value", "absent" or "null"
FieldModes ==
    { m \in [FieldNames -> {"value", "absent", "null"}] :
        Cardinality({ f \in FieldNames : m[f] # "value" }) <= MaxOddFields }

RecordOf(m) ==
    [issuetype |-> FieldValue("issuetype", m["issuetype"]),
     summary |-> FieldValue("summary", m["summary"]),
     priority |-> FieldValue("priority", m["priority"]),
     status |-> FieldValue("status", m["status"]),
     reporter |-> FieldValue("reporter", m["reporter"]),
     assignee |-> FieldValue("assignee", m["assignee"]),
     components |-> FieldValue("components", m["components"]),
     labels |-> FieldValue("labels", m["labels"]),
     versions |-> FieldValue("versions", m["versions"]),
     fixVersions |-> FieldValue("fixVersions", m["fixVersions"]),
     environment |-> FieldValue("environment", m["environment"]),
     description |-> FieldValue("description", m["description"])]

----------------------------------------------------------------------------
\* Records whose labels are built

ComponentNames == { <<"Core">>, <<"Data", " ", "Layer">> }
TrackerLabels == { <<"core">>, <<"automated">> }
TypeNames == { <<"Bug">>, <<"bug">>, <<"BUG">>, <<"Story">>, <<"New", " ", "Feature">> }

LabelRecords ==
    [summary : { <<"Crash">> },
     issuetype : TypeNames \cup {Absent},
     priority : { <<"High">>, Absent },
     components : SeqsUpTo(ComponentNames, MaxNames),
     labels : SeqsUpTo(TrackerLabels, MaxNames)]

----------------------------------------------------------------------------
\* IssueBodyGenerator._build_attachments_section

GeneratorLine(att) ==
    IF att.github_url # NoneUrl
    THEN <<"- ", GetFileIcon(att.filename), " **[">> \o att.filename \o <<"](">>
             \o att.github_url \o <<")** - ", SizeKb(att.size), " KB">>
    ELSE <<"- ", GetFileIcon(att.filename), " **">> \o att.filename
             \o <<"** - ", SizeKb(att.size), " KB ", UploadFailedMarker>>

BuildAttachmentsSectionUploadedOnly(atts) ==
    IF atts = <<>> THEN <<>>
    ELSE << <<"## Attachments">> >>
         \o SelectSeq([k \in 1 .. Len(atts) |-> GeneratorLine(atts[k])],
                      LAMBDA line : UploadFailedMarker \notin { line[k] : k \in DOMAIN line })

BuildAttachmentsSection(atts) ==
    IF atts = <<>> THEN <<>>
    ELSE << <<"## Attachments">> >> \o [k \in 1 .. Len(atts) |-> GeneratorLine(atts[k])]

\* the lists of relocated attachments a body is rendered for
AssetUrls == { DownloadUrl(<<"uploads/">> \o ReleaseTag("BUG-1", 0), f) : f \in Filenames }

RelocatedLists ==
    SeqsUpTo([filename : Filenames, size : Sizes, github_url : AssetUrls \cup {NoneUrl}],
             MaxRefs)

----------------------------------------------------------------------------
\* severity_label (issue-creator/github-client.py).  Scores are in tenths.

CvssValues ==
    [kind : {"float", "numeric_text"}, tenths : 0 .. 100]
    \cup [kind : {"None", "empty", "N/A", "text", "list", "nan", "big_int"}, tenths : {0}]

\* float(cvss_raw) if cvss_raw not in ("N/A", None, "") else 0.0, in tenths;
\* TypeError and ValueError give 0.0
ScoreOf(cvss_raw) ==
    CASE cvss_raw.kind \in {"float", "numeric_text"} -> cvss_raw.tenths
      [] OTHER -> 0

severity_label(cvss_raw) ==
    IF cvss_raw.kind = "big_int" THEN Raised            \* OverflowError is not caught
    ELSE IF cvss_raw.kind = "nan" THEN Returned(<<"severity:", "low">>)
    ELSE LET score == ScoreOf(cvss_raw)
         IN  IF score >= 90 THEN Returned(<<"severity:", "critical">>)
             ELSE IF score >= 70 THEN Returned(<<"severity:", "high">>)
             ELSE IF score >= 40 THEN Returned(<<"severity:", "medium">>)
             ELSE Returned(<<"severity:", "low">>)

----------------------------------------------------------------------------
\* The helper functions evaluated on their own: one call on one argument.

InitFn ==
    /\ run_no = 1
    /\ now = 0
    /\ tag_log = {}
    /\ bug_key = "BUG-1"
    /\ bug_data = <<>>
    /\ attachments = <<>>
    /\ github_issue_number = 0
    /\ github_issue_url = <<>>
    /\ pc = "idle"
    /\ exit_code = -1
    /\ i = 0
    /\ filename = Unbound
    /\ upload_url = <<>>
    /\ j = 0
    /\ net = <<>>
    /\ disk = [f \in Filenames |-> 0]
    /\ requests = <<>>
    /\ upload_log = <<>>
    /\ outcomes = NoOutcomes
    /\ issue_data = <<>>
    /\ fn_output = <<>>
    /\ CleanupIdle
    /\ \/ fn_name = "extract" /\ fn_input \in JsonValues
       \/ fn_name = "environment" /\ fn_input \in JsonValues \cup {JAbsent}
       \/ fn_name = "generate" /\ fn_input \in FieldModes
       \/ fn_name = "issue_labels" /\ fn_input \in LabelRecords
       \/ fn_name = "attachments_section" /\ fn_input \in RelocatedLists
       \/ fn_name = "severity_label" /\ fn_input \in CvssValues

Call(name, result) ==
    /\ fn_name = name
    /\ fn_output = <<>>
    /\ fn_output' = <<result>>
    /\ UNCHANGED <<fn_name, fn_input>>
    /\ UNCHANGED run_vars
    /\ UNCHANGED cleanup_vars

CallExtract ==
    Call("extract", [description |-> ExtractDescription(fn_input),
                     adf |-> ExtractTextFromAdf(fn_input),
                     inline |-> DescriptionOf(fn_input)])

CallEnvironment ==
    Call("environment", [generator |-> GeneratorEnvironment(fn_input),
                         processor |-> ProcessorEnvironment(fn_input)])

CallGenerate ==
    Call("generate", [generator |-> Generate(RecordOf(fn_input)),
                      processor |-> Body(RecordOf(fn_input))])

CallIssueLabels ==
    Call("issue_labels", IssueLabels(fn_input))

CallAttachmentsSection ==
    Call("attachments_section", [generator |-> BuildAttachmentsSection(fn_input),
                                 processor |-> AttachmentSection(fn_input)])

CallSeverityLabel ==
    Call("severity_label", severity_label(fn_input))

NextFn ==
    \/ CallExtract
    \/ CallEnvironment
    \/ CallGenerate
    \/ CallIssueLabels
    \/ CallAttachmentsSection
    \/ CallSeverityLabel

SpecFn == InitFn /\ [][NextFn]_vars

----------------------------------------------------------------------------
\* cleanup_attachments.py: delete_releases_for_bug, started by main() for one
\* bug key against a repository that lists some releases.

StartsWith(s, prefix) ==
    /\ Len(s) >= Len(prefix)
    /\ SubSeq(s, 1, Len(prefix)) = prefix

\* f"jira-{bug_key_lower}-"
TagPrefix(key) == <<"jira-", LowerTok(key), "-">>

\* tags of releases of the processor for BUG-1 and BUG-2, of a release for
\* the key BUG-10, and of a release that is not the processor's
RepoTags ==
    { ReleaseTag(key, t) : key \in BugKeys, t \in 0 .. 1 }
    \cup { <<"jira-", "bug-1", "0", "-", "0">>, <<"v1.0">> }

\* listings: each release once, its id being its place in the listing
Listings ==
    { [k \in DOMAIN tags |-> [id |-> k, tag_name |-> tags[k]]] :
        tags \in { t \in SeqsUpTo(RepoTags, MaxReleases) :
                      \A a, b \in DOMAIN t : a # b => t[a] # t[b] } }

InitCleanup ==
    /\ run_no = 1
    /\ now = 0
    /\ tag_log = {}
    /\ bug_key = "BUG-1"
    /\ bug_data = <<>>
    /\ attachments = <<>>
    /\ github_issue_number = 0
    /\ github_issue_url = <<>>
    /\ pc = "idle"
    /\ exit_code = -1
    /\ i = 0
    /\ filename = Unbound
    /\ upload_url = <<>>
    /\ j = 0
    /\ net = <<>>
    /\ disk = [f \in Filenames |-> 0]
    /\ requests = <<>>
    /\ upload_log = <<>>
    /\ outcomes = NoOutcomes
    /\ issue_data = <<>>
    /\ fn_name = "none"
    /\ fn_input = <<>>
    /\ fn_output = <<>>
    /\ cleanup_pc = "list"
    /\ cleanup_key \in BugKeys
    /\ repo_releases \in Listings
    /\ matching_releases = <<>>
    /\ r = 0
    /\ delete_log = <<>>
    /\ list_outcome = "none"
    /\ deleted_count = 0
    /\ cleanup_exit = -1

\* the script ends: a return value, or an exception that leaves main()
CleanupExit(status) ==
    /\ cleanup_pc' = "done"
    /\ cleanup_exit' = status

\* lines 17-56: only HTTPError is caught around the listing request
ListOutcomes == {"ok", "http_error", "url_error", "missing_env"}

MatchingReleases(releases, key) ==
    SelectSeq(releases, LAMBDA rel : StartsWith(rel.tag_name, TagPrefix(key)))

ListReleases ==
    /\ cleanup_pc = "list"
    /\ \E o \in ListOutcomes :
        /\ list_outcome' = o
        /\ IF o = "ok"
           THEN LET matching == MatchingReleases(repo_releases, cleanup_key)
                IN  /\ matching_releases' = matching
                    /\ IF matching = <<>>
                       THEN CleanupExit(0) /\ UNCHANGED r
                       ELSE /\ cleanup_pc' = "delete"
                            /\ r' = 1
                            /\ UNCHANGED cleanup_exit
           ELSE /\ CleanupExit(1)
                /\ UNCHANGED <<matching_releases, r>>
    /\ UNCHANGED <<cleanup_key, repo_releases, delete_log, deleted_count>>
    /\ UNCHANGED run_vars
    /\ UNCHANGED fn_vars

\* lines 63-88: only HTTPError is caught around each DELETE request
DeleteOutcomes == {"ok", "http_error", "url_error"}

DeleteRaises(o) == o \notin {"ok", "http_error"}

DeleteRelease ==
    /\ cleanup_pc = "delete"
    /\ r \in DOMAIN matching_releases
    /\ \E o \in DeleteOutcomes :
        /\ delete_log' = Append(delete_log, [id |-> matching_releases[r].id, outcome |-> o])
        /\ deleted_count' = IF o = "ok" THEN deleted_count + 1 ELSE deleted_count
        /\ IF DeleteRaises(o)
           THEN CleanupExit(1) /\ UNCHANGED r
           ELSE /\ r' = r + 1
                /\ IF r + 1 > Len(matching_releases)
                   THEN CleanupExit(0)
                   ELSE UNCHANGED <<cleanup_pc, cleanup_exit>>
    /\ UNCHANGED <<cleanup_key, repo_releases, matching_releases, list_outcome>>
    /\ UNCHANGED run_vars
    /\ UNCHANGED fn_vars

NextCleanup ==
    \/ ListReleases
    \/ DeleteRelease

SpecCleanup == InitCleanup /\ [][NextCleanup]_vars

----------------------------------------------------------------------------
\* Vocabulary of the properties

Count(op) == Cardinality({ k \in DOMAIN requests : requests[k].op = op })

UploadCalls(k) == { m \in DOMAIN upload_log : upload_log[m].att = k }

Failed(o) == o \notin {"none", "ok"}

RelocationOver == pc \in {"create_issue", "update_jira", "done"}

\* refs whose bytes were requested and whose download and save succeed
DownloadedOk ==
    { k \in DOMAIN Refs : Request("download", k) \in { requests[m] : m \in DOMAIN requests }
                          /\ net[k] = "ok" }

\* refs that are well formed and whose download and save succeed, in input
\* order (nothing can be saved when the attachments directory cannot be made)
ExpectedRelocated ==
    LET Good(k) == /\ Refs[k].filename # Missing
                   /\ net[k] = "ok"
                   /\ outcomes.mkdir # "os_error"
    IN  SelectSeq([k \in 1 .. Len(Refs) |-> k], Good)

RelocatedRefs == [k \in 1 .. Len(attachments) |-> attachments[k].ref]

HasMarker(line) == \E k \in DOMAIN line : line[k] = UploadFailedMarker

HasLink(line) == \E k \in DOMAIN line : line[k] = "]("

Mentions(line, fname) ==
    \E a \in 1 .. Len(line) :
        /\ a + Len(fname) - 1 <= Len(line)
        /\ SubSeq(line, a, a + Len(fname) - 1) = fname

----------------------------------------------------------------------------
\* C1: when the back-link comment request fails for any reason (HTTP error
\* status, connection failure, timeout) after the issue was created, run()
\* still returns 0.
C1_BacklinkFailureSwallowed ==
    (pc = "done" /\ Failed(outcomes.comment)) => exit_code = 0

\* C2: when the fetch of the source record fails, run() returns 1 and has made
\* no download, no release creation, no upload, no issue creation and no
\* back-link request.
C2_FetchFailureAborts ==
    Failed(outcomes.fetch) =>
        /\ pc = "done"
        /\ exit_code = 1
        /\ requests = << Request("fetch", 0) >>
        /\ upload_log = <<>>
        /\ attachments = <<>>
        /\ issue_data = <<>>
        /\ outcomes = [NoOutcomes EXCEPT !.fetch = outcomes.fetch]

C2_Witness == outcomes.fetch = "url_error" /\ pc = "done"

\* C3: when issue creation fails, run() returns 1 and makes no back-link
\* request; a back-link request is only made after an issue request that
\* succeeded and gave the issue number and URL.
C3_BacklinkOnlyAfterIssue ==
    /\ Failed(outcomes.issue) => (pc = "done" /\ exit_code = 1 /\ Count("comment") = 0)
    /\ \A k \in DOMAIN requests :
          requests[k].op = "comment" =>
             /\ outcomes.issue = "ok"
             /\ github_issue_number # 0
             /\ github_issue_url # <<>>
             /\ requests[k].ref = github_issue_number
             /\ \E m \in 1 .. (k - 1) : requests[m].op = "issue"

C3_Witness == outcomes.issue = "http_error" /\ pc = "done" /\ Count("issue") = 1

\* C4: after a successful fetch no failure of the attachment relocation phase
\* aborts the run: the run always goes on to attempt issue creation.
C4_RelocationNeverAborts ==
    (pc = "done" /\ outcomes.fetch = "ok") => outcomes.issue # "none"

\* C5: once process_attachments is over, the relocated attachments are exactly
\* the input refs whose download (fetching the bytes and saving them)
\* succeeds, in input order.
C5_RelocatedAreDownloadedInOrder ==
    (outcomes.fetch = "ok" /\ pc \notin {"process_attachments", "download"}) =>
        RelocatedRefs = ExpectedRelocated

\* C6: when release creation fails, no upload is attempted and the creation
\* is not retried; every downloaded attachment stays listed with github_url
\* None and is rendered with the upload-failed marker and without a link.
C6_ReleaseFailureKeepsListing ==
    Failed(outcomes.release) =>
        /\ upload_log = <<>>
        /\ Count("upload") = 0
        /\ Count("release") = 1
        /\ attachments # <<>>
        /\ RelocatedRefs = ExpectedRelocated
        /\ \A k \in DOMAIN attachments : attachments[k].github_url = NoneUrl
        /\ issue_data # <<>> =>
             LET section == issue_data[1].attachment_section
             IN  /\ Len(section) = Len(attachments) + 1
                 /\ \A k \in DOMAIN attachments :
                       /\ Mentions(section[k + 1], attachments[k].filename)
                       /\ HasMarker(section[k + 1])
                       /\ ~HasLink(section[k + 1])

C6_Witness ==
    /\ outcomes.release = "http_error"
    /\ Len(attachments) = 2
    /\ issue_data # <<>>

\* C7: when release creation succeeds, _upload_asset is called exactly once
\* for every downloaded attachment whatever happens to the other uploads, and
\* an attachment has a github_url exactly when its own upload succeeded.
C7_UploadsIsolated ==
    outcomes.release = "ok" =>
        /\ \A k \in DOMAIN attachments : Cardinality(UploadCalls(k)) <= 1
        /\ \A m \in DOMAIN upload_log :
              /\ upload_log[m].att \in DOMAIN attachments
              /\ (attachments[upload_log[m].att].github_url # NoneUrl)
                    <=> (upload_log[m].outcome = "ok")
        /\ \A k \in DOMAIN attachments :
              UploadCalls(k) = {} => attachments[k].github_url = NoneUrl
        /\ RelocationOver =>
              \A k \in DOMAIN attachments : Cardinality(UploadCalls(k)) = 1

C7_Witness ==
    /\ outcomes.release = "ok"
    /\ pc = "create_issue"
    /\ Len(upload_log) = 2
    /\ upload_log[1].outcome = "http_error"
    /\ upload_log[2].outcome = "ok"

\* C8: a run makes exactly one release creation request when at least one
\* attachment was downloaded (fetched and saved), and none when no
\* attachment was.
C8_OneReleasePerRun ==
    /\ Count("release") <= 1
    /\ Count("release") = 1 => (attachments # <<>> /\ DownloadedOk # {})
    /\ (RelocationOver \/ pc = "upload") =>
          Count("release") = (IF DownloadedOk # {} THEN 1 ELSE 0)

C8_Witness ==
    /\ pc = "done"
    /\ exit_code = 0
    /\ Len(Refs) = 2
    /\ Len(attachments) = 1
    /\ Count("release") = 1

\* C9: two runs for the same source key that each request a release use
\* different release tag names.
C9_TagsDifferAcrossRuns ==
    \A a \in tag_log, b \in tag_log :
        (a.run # b.run /\ a.key = b.key) => a.tag # b.tag

\* C10: the label list submitted with the issue holds no label string twice.
C10_SubmittedLabelsDistinct ==
    issue_data # <<>> =>
        LET labels == issue_data[1].labels
        IN  \A a \in DOMAIN labels, b \in DOMAIN labels : a # b => labels[a] # labels[b]

----------------------------------------------------------------------------
\* Vocabulary of the extraction properties

Called(name) == fn_name = name /\ fn_output # <<>>

RECURSIVE IsNode(_)
\* a node object: a dict whose `text` is a string or missing and whose
\* `content` is missing or a list of node objects
IsNode(v) ==
    /\ v.kind = "dict"
    /\ v.text \notin {"<null>", "<num>"}
    /\ v.ckind \in {"<missing>", "list"}
    /\ \A k \in DOMAIN v.items : IsNode(v.items[k])

\* a rich document: one node object, or a sequence of node objects
RichDocument(v) ==
    \/ IsNode(v)
    \/ v.kind = "list" /\ v.items # <<>> /\ \A k \in DOMAIN v.items : IsNode(v.items[k])

RECURSIVE TextsOf(_), TextsOfAll(_)
\* the payloads of the text nodes of a rich document, parents before
\* children and siblings left to right
TextsOf(v) ==
    (IF v.kind = "dict" /\ v.type = "text"
     THEN << IF v.text = "<missing>" THEN "" ELSE v.text >> ELSE <<>>)
    \o TextsOfAll(v.items)

TextsOfAll(items) ==
    IF items = <<>> THEN <<>> ELSE TextsOf(Head(items)) \o TextsOfAll(Tail(items))

ExpectedText(v) == IF TextsOf(v) = <<>> THEN Fallback ELSE Join(TextsOf(v))

\* C12: extract never fails on malformed input: whatever the type of a node,
\* of a `content` value or of a `text` payload at any level, both extractors
\* return a string instead of raising.
C12_ExtractNeverFails ==
    Called("extract") =>
        /\ ~fn_output[1].description.raised
        /\ ~fn_output[1].adf.raised

\* C13: for a rich document, given as one node object or as a sequence of
\* node objects, both extractors return the payloads of all its text nodes
\* in pre-order, joined by newlines.
C13_ExtractReturnsAllTextsInPreorder ==
    (Called("extract") /\ RichDocument(fn_input)) =>
        /\ fn_output[1].description = Returned(ExpectedText(fn_input))
        /\ fn_output[1].adf = Returned(ExpectedText(fn_input))

\* None, {} or a node object without any text node
NoTextInput(v) == v = JNull \/ v = EmptyDict \/ (IsNode(v) /\ TextsOf(v) = <<>>)

\* C14: for None, for an empty object and for a document without any text
\* node, the generator's extractor and the processor's description step
\* return the same fallback string, never an empty or null result.
C14_FallbackEquivalence ==
    (Called("extract") /\ NoTextInput(fn_input)) =>
        /\ fn_output[1].description = Returned(Fallback)
        /\ fn_output[1].inline = Returned(Fallback)

C14_Witness ==
    /\ Called("extract")
    /\ fn_input = JDict("doc", "<missing>", "list", <<>>)
    /\ fn_output[1].description = Returned(Fallback)
    /\ fn_output[1].inline = Returned(Fallback)

----------------------------------------------------------------------------
\* Vocabulary of the rendering properties

\* the defaults table, by placeholder
DefaultOf(name) ==
    CASE name = "issuetype" -> <<"Bug">>
      [] name = "summary" -> <<"No title">>
      [] name = "priority" -> <<"Medium">>
      [] name \in {"status", "reporter"} -> <<"Unknown">>
      [] name = "assignee" -> <<"Unassigned">>
      [] name \in {"components", "labels"} -> <<"None">>
      [] name \in {"versions", "fixVersions", "environment"} -> <<"Not specified">>
      [] name = "description" -> <<"No description provided">>

ShownFor(values, name) ==
    CASE name = "issuetype" -> values.bug_type
      [] name = "summary" -> values.summary
      [] name = "priority" -> values.priority
      [] name = "status" -> values.status
      [] name = "reporter" -> values.reporter
      [] name = "assignee" -> values.assignee
      [] name = "components" -> values.components
      [] name = "labels" -> values.labels
      [] name = "versions" -> values.versions
      [] name = "fixVersions" -> values.fix_versions
      [] name = "environment" -> values.environment
      [] name = "description" -> values.description

ShowsDefaults(out, modes) ==
    /\ ~out.raised
    /\ \A f \in FieldNames : modes[f] # "value" => ShownFor(out.values[1], f) = DefaultOf(f)

\* C11: rendering a record in which a field of the defaults table is missing
\* or null completes without error and shows that field's default, in the
\* generator and in the processor's inline body.
C11_MissingOrNullFieldShowsDefault ==
    Called("generate") =>
        /\ ShowsDefaults(fn_output[1].generator, fn_input)
        /\ ShowsDefaults(fn_output[1].processor, fn_input)

\* an environment that is absent, null, empty or a document without text
NoEnvironment(v) ==
    v \in {JAbsent, JNull, JStr("")} \/ (IsNode(v) /\ TextsOf(v) = <<>>)

\* C15: when the environment field is absent, null, empty or a rich document
\* with no text node, the environment text of the issue body is
\* "Not specified", in the generator and in the processor.
C15_NoEnvironmentIsNotSpecified ==
    (Called("environment") /\ NoEnvironment(fn_input)) =>
        /\ fn_output[1].generator = Returned(NotSpecified)
        /\ fn_output[1].processor = Returned(NotSpecified)

----------------------------------------------------------------------------
\* Vocabulary of the label properties

ExtraLabels == << <<"jira-bug">>, <<"automated">> >>

PriorityLabel(fields) == Lower(GetName(fields.priority, <<"Medium">>))

ComponentLabels(fields) ==
    [k \in DOMAIN fields.components |->
        <<"component:">> \o ReplaceSpace(Lower(fields.components[k]))]

TypeName(fields) == GetName(fields.issuetype, <<"Bug">>)

IsTypeLabel(label) == label # <<>> /\ label[1] = "type:"

\* the list is the four leading parts, followed by exactly one type label
\* when `typed` and by nothing otherwise
LabelsInOrder(labels, fields, typed) ==
    LET lead == ExtraLabels \o <<PriorityLabel(fields)>> \o ComponentLabels(fields)
                    \o fields.labels
    IN  /\ Len(labels) = Len(lead) + (IF typed THEN 1 ELSE 0)
        /\ SubSeq(labels, 1, Len(lead)) = lead
        /\ typed => IsTypeLabel(labels[Len(labels)])
        /\ (fields.components = <<>> /\ fields.labels = <<>> /\ ~typed)
               => labels = ExtraLabels \o <<PriorityLabel(fields)>>

----------------------------------------------------------------------------
\* the severity level the claim gives for a score, by kind of input
LevelOf(cvss_raw) ==
    IF cvss_raw.kind \in {"float", "numeric_text"}
    THEN (IF cvss_raw.tenths >= 90 THEN "critical"
          ELSE IF cvss_raw.tenths >= 70 THEN "high"
          ELSE IF cvss_raw.tenths >= 40 THEN "medium"
          ELSE "low")
    ELSE "low"

\* C17: severity derivation is total: a score >= 9.0 gives the label of
\* level critical, >= 7.0 high, >= 4.0 medium, anything lower low; a missing
\* or non-numeric score counts as 0.0 and gives low; no input makes it raise.
\* (The label of a level is "severity:<level>".)
C17_SeverityIsTotal ==
    Called("severity_label") =>
        /\ ~fn_output[1].raised
        /\ fn_output[1].value = <<"severity:", LevelOf(fn_input)>>

----------------------------------------------------------------------------
\* the lines of a section after its heading
LinesOf(section) == SubSeq(section, 2, Len(section))

SectionListsAll(section, atts) ==
    /\ section = <<>> <=> atts = <<>>
    /\ atts # <<>> =>
         /\ Len(LinesOf(section)) = Len(atts)
         /\ \A k \in DOMAIN atts :
              LET line == LinesOf(section)[k]
              IN  /\ Mentions(line, atts[k].filename)
                  /\ HasLink(line) <=> atts[k].github_url # NoneUrl
                  /\ atts[k].github_url # NoneUrl => Mentions(line, atts[k].github_url)
                  /\ HasMarker(line) <=> atts[k].github_url = NoneUrl

\* C18: the attachments section is empty if and only if there is no
\* relocated attachment; otherwise it has one line per attachment in list
\* order, with a link to the destination URL if and only if that URL is not
\* None and with the upload-failed marker otherwise.
C18_SectionListsEveryAttachment ==
    Called("attachments_section") =>
        /\ SectionListsAll(fn_output[1].generator, fn_input)
        /\ SectionListsAll(fn_output[1].processor, fn_input)

C18_Witness ==
    /\ Called("attachments_section")
    /\ Len(fn_input) = 2
    /\ fn_input[1].github_url = NoneUrl
    /\ fn_input[2].github_url # NoneUrl
    /\ HasMarker(fn_output[1].generator[2])
    /\ HasLink(fn_output[1].generator[3])
    /\ fn_output[1].processor = fn_output[1].generator

----------------------------------------------------------------------------
\* Vocabulary of the run properties

IssueCreated == github_issue_number # 0

FatalFailure == Failed(outcomes.fetch) \/ Failed(outcomes.issue)

\* C19: run() returns 0 if and only if the issue was created in this run,
\* and 1 if and only if the fetch or the issue creation failed.
C19_ExitCodeTellsIssueCreated ==
    pc = "done" =>
        /\ exit_code = 0 <=> IssueCreated
        /\ exit_code = 1 <=> FatalFailure

\* the place of a remote operation, and of a position of run(), in the order
\* fetch, downloads, release, uploads, issue, back-link
PhaseOf(op) ==
    CASE op \in {"fetch"} -> 1
      [] op \in {"download", "process_attachments"} -> 2
      [] op \in {"release", "create_release"} -> 3
      [] op \in {"upload"} -> 4
      [] op \in {"issue", "create_issue"} -> 5
      [] op \in {"comment", "update_jira"} -> 6
      [] op \in {"done"} -> 7

RequestsInOrder ==
    /\ \A m, n \in DOMAIN requests :
          m < n => /\ PhaseOf(requests[m].op) <= PhaseOf(requests[n].op)
                   /\ requests[m] # requests[n]
    /\ \A op \in {"fetch", "release", "issue", "comment"} : Count(op) <= 1
    /\ issue_data # <<>> => Count("issue") = 1
    /\ \A k \in DOMAIN requests : PhaseOf(requests[k].op) <= PhaseOf(pc)

\* C20: a run is linear and never retries: its requests are made in the
\* order fetch, downloads, release, uploads, issue, back-link; run() never
\* goes back to an earlier phase; no request is made twice; and a run that
\* has built its issue draft has submitted it exactly once.
C20_LinearNoRetry ==
    /\ []RequestsInOrder
    /\ [][PhaseOf(pc') >= PhaseOf(pc)]_vars

C20_Witness ==
    /\ pc = "done"
    /\ Count("fetch") = 1
    /\ Count("download") = 2
    /\ Count("release") = 1
    /\ Count("upload") = 2
    /\ Count("issue") = 1
    /\ Count("comment") = 1
    /\ \E k \in DOMAIN upload_log : Failed(upload_log[k].outcome)

----------------------------------------------------------------------------
\* Vocabulary of the cleanup properties

\* ids of the listed releases whose tag starts with jira-<key lower-cased>-,
\* in listing order
ExpectedDeletes ==
    LET hit == SelectSeq(repo_releases,
                         LAMBDA rel : /\ Len(rel.tag_name) >= 3
                                      /\ rel.tag_name[1] = "jira-"
                                      /\ rel.tag_name[2] = LowerTok(cleanup_key)
                                      /\ rel.tag_name[3] = "-")
    IN  [k \in DOMAIN hit |-> hit[k].id]

AttemptedDeletes == [k \in DOMAIN delete_log |-> delete_log[k].id]

\* C21: once the listing succeeds, cleanup attempts a DELETE exactly once for
\* every listed release whose tag starts with jira-<key lower-cased>- and
\* for no other release, whatever the outcome of the earlier deletes; a
\* failed listing deletes nothing and exits 1.
C21_CleanupAttemptsEveryMatch ==
    /\ (cleanup_pc = "done" /\ list_outcome = "ok") => AttemptedDeletes = ExpectedDeletes
    /\ \A a, b \in DOMAIN delete_log : a # b => delete_log[a].id # delete_log[b].id
    /\ \A k \in DOMAIN delete_log : \E m \in DOMAIN ExpectedDeletes :
          delete_log[k].id = ExpectedDeletes[m]
    /\ Failed(list_outcome) => (delete_log = <<>> /\ cleanup_exit = 1)

----------------------------------------------------------------------------
\* C22: the bytes uploaded as the release asset of a relocated attachment are
\* the bytes downloaded for that attachment's own ref, also when two refs of
\* the record have the same filename.
C22_UploadedBytesAreDownloaded ==
    \A m \in DOMAIN upload_log :
        upload_log[m].outcome = "ok" =>
            upload_log[m].bytes = attachments[upload_log[m].att].ref

====
